---- MODULE Spec2Model ----
(***************************************************************************)
(* A model of mc_schems: the Blocks container (src/src/lib.rs), the format *)
(* dispatch of Schematic::deserialize / Schematic::serialize               *)
(* (src/src/lib.rs) and the Sponge codec (src/src/sponge.rs).              *)
(*                                                                         *)
(* Three state machines share the module's variables:                      *)
(*   SpecBlocks  a Blocks value driven through its public operations and   *)
(*               through read_block_container;                             *)
(*   SpecVarint  the block-data varint encoder and decoder applied to one  *)
(*               u32 value or one byte sequence;                           *)
(*   SpecCodec   Schematic::deserialize applied to a document, and         *)
(*               Schematic::serialize applied to a Schematic, followed by  *)
(*               Schematic::deserialize of what it produced.               *)
(***************************************************************************)
EXTENDS Integers, Sequences, FiniteSets, TLC

VARIABLES
    blocks,   \* SpecBlocks: the Blocks value (lib.rs:73-80)
    call,     \* SpecBlocks: the last operation applied to it, with its result
    nOps,     \* SpecBlocks: number of operations applied since construction
    vin,      \* SpecVarint: the input (a u32 to encode, or bytes to decode)
    vout,     \* SpecVarint: what the encoder / decoder produced
    vpc,      \* SpecVarint: position ("start", "encoded", "decoded")
    build,    \* the build profile: overflow checks on ("debug") or off ("release")
    doc,      \* SpecCodec: the tagged-tree document (nbt::Blob content)
    schem,    \* SpecCodec: the Schematic handed to serialize
    fmt,      \* SpecCodec: the SchematicFormat handed to serialize
    ser,      \* SpecCodec: the Result of Schematic::serialize
    outcome,  \* SpecCodec: the Result of Schematic::deserialize
    reader,   \* SpecCodec: the version sponge::deserialize was invoked with, if it was
    cpc       \* SpecCodec: position ("doc", "schem", "serialized", "done", "roundtrip")

vars == <<blocks, call, nOps, vin, vout, vpc, build, doc, schem, fmt, ser, outcome, reader, cpc>>

blocksVars == <<blocks, call, nOps>>
varintVars == <<vin, vout, vpc>>
codecVars == <<doc, schem, fmt, ser, outcome, reader, cpc>>

(***************************************************************************)
(* Bounds of the model.                                                    *)
(***************************************************************************)
MaxDim == 2       \* every dimension of a Blocks under SpecBlocks is in 0..MaxDim
MaxOps == 1       \* operations applied to one Blocks value
MaxRawId == 1     \* raw ids handed to set_block_id_at are in 0..MaxRawId
MaxBytes == 3     \* length of the block-data arrays handed to the decoder

\* Option<T>: None is the empty sequence, Some(v) the one-element sequence.
None == <<>>
Some(v) == <<v>>
IsSome(o) == Len(o) = 1
Unwrap(o) == o[1]

\* Block-type names used as inputs.
AIR == "minecraft:air"
Names == {AIR, "minecraft:stone", "minecraft:dirt"}

(***************************************************************************)
(* u32 arithmetic.  A u32 is the pair <<hi, lo>> of its two 16-bit halves, *)
(* so that the whole range [0, 2^32) is representable.                     *)
(***************************************************************************)

\* A natural number below 2^31 as a u32.
U32(n) == <<n \div 65536, n % 65536>>

\* `v as u32` for an i32 v: two's complement for the negative ones.
I32AsU32(v) ==
    IF v >= 0 THEN U32(v)
    ELSE <<65535 - ((-v - 1) \div 65536), 65535 - ((-v - 1) % 65536)>>

\* `b as u8` for an i8 b, and `b as i8` for a u8 b.
I8AsU8(b) == b % 256
U8AsI8(b) == IF b >= 128 THEN b - 256 ELSE b

\* Bitwise or of two naturals.
RECURSIVE BitOr(_, _)
BitOr(a, b) ==
    IF a = 0 THEN b
    ELSE IF b = 0 THEN a
    ELSE (IF a % 2 = 1 \/ b % 2 = 1 THEN 1 ELSE 0) + 2 * BitOr(a \div 2, b \div 2)

U32Or(p, q) == <<BitOr(p[1], q[1]), BitOr(p[2], q[2])>>

\* (g as u32) << s for a 7-bit group g and 0 <= s < 32; bits shifted past
\* bit 31 are dropped.
U32Shl(g, s) ==
    IF s < 16
    THEN LET v == g * (2 ^ s) IN <<(v \div 65536) % 65536, v % 65536>>
    ELSE <<(g * (2 ^ (s - 16))) % 65536, 0>>

\* idx >> 7 and idx & 0b1111_1111
U32Shr7(p) == <<p[1] \div 128, (p[2] \div 128) + ((p[1] % 128) * 512)>>
U32Low8(p) == p[2] % 256

(***************************************************************************)
(* The block-data varint (src/src/sponge.rs:56-65 and 216-228).            *)
(***************************************************************************)

\* An encoder that masks 7 bits and sets the continuation bit on every byte.
RECURSIVE write_varint_always_continue(_)
write_varint_always_continue(idx) ==
    LET rest == U32Shr7(idx) IN
    <<U8AsI8(BitOr(idx[2] % 128, 128))>>
        \o (IF rest = <<0, 0>> THEN <<>> ELSE write_varint_always_continue(rest))

\* The encoder loop of write_block_container for one palette id: the bytes
\* pushed, as i8.
RECURSIVE write_varint(_)
write_varint(idx) ==
    LET temp == U32Low8(idx)
        rest == U32Shr7(idx)
        byte == IF rest # <<0, 0>> THEN BitOr(temp, 128) ELSE temp
    IN  <<U8AsI8(byte)>> \o (IF rest = <<0, 0>> THEN <<>> ELSE write_varint(rest))

\* The decoder loop of read_block_container for one cell, from 0-based
\* offset i of block_arr (a Vec<u8>), at iteration varint_len of 0..=5.
\* [panic, id, i].  block_arr[i] panics past the end; a shift by 35 panics
\* with overflow checks on and is a shift by 35 mod 32 without them.
RECURSIVE read_varint_loop(_, _, _, _, _)
read_varint_loop(block_arr, i, varint_len, blockstate_id, bld) ==
    IF varint_len > 5
    THEN [panic |-> FALSE, id |-> blockstate_id, i |-> i]
    ELSE IF i >= Len(block_arr)
    THEN [panic |-> TRUE, id |-> blockstate_id, i |-> i]
    ELSE IF varint_len * 7 >= 32 /\ bld = "debug"
    THEN [panic |-> TRUE, id |-> blockstate_id, i |-> i]
    ELSE LET b == block_arr[i + 1]
             acc == U32Or(blockstate_id, U32Shl(b % 128, (varint_len * 7) % 32))
         IN  IF (b \div 128) % 2 # 1
             THEN [panic |-> FALSE, id |-> acc, i |-> i + 1]
             ELSE read_varint_loop(block_arr, i + 1, varint_len + 1, acc, bld)

read_varint(block_arr, i, bld) ==
    read_varint_loop(block_arr, i, 0, <<0, 0>>, bld)

(***************************************************************************)
(* Blocks (src/src/lib.rs:73-160).  Vectors are 1-based sequences here, so *)
(* a 0-based offset k of the source is element k + 1.                      *)
(***************************************************************************)

\* Blocks::new
BlocksNew(size_x, size_y, size_z, initial_block) ==
    [ palette     |-> <<initial_block>>,
      indices     |-> [i \in 1..(size_x * size_y * size_z) |-> 0],
      palette_map |-> (initial_block :> 0),
      size_x      |-> size_x,
      size_y      |-> size_y,
      size_z      |-> size_z ]

\* Blocks::bounds_check: TRUE when the position passes (no panic).
bounds_check(b, pos_x, pos_y, pos_z) ==
    ~(pos_x >= b.size_x \/ pos_y >= b.size_y \/ pos_z >= b.size_z)

\* A linearization that forgets one stride.
block_index_at_lost_stride(b, pos_x, pos_y, pos_z) ==
    (pos_x * b.size_y) + (pos_y * b.size_z) + pos_z

\* Blocks::block_index_at
block_index_at(b, pos_x, pos_y, pos_z) ==
    (pos_x * b.size_y * b.size_z) + (pos_y * b.size_z) + pos_z

\* Blocks::get_block_id_at: [panic, id].  The slice index panics when the
\* offset is not inside indices.
get_block_id_at(b, pos_x, pos_y, pos_z) ==
    LET idx == block_index_at(b, pos_x, pos_y, pos_z) IN
    IF ~bounds_check(b, pos_x, pos_y, pos_z) \/ idx >= Len(b.indices)
    THEN [panic |-> TRUE, id |-> 0]
    ELSE [panic |-> FALSE, id |-> b.indices[idx + 1]]

\* Blocks::get_block_at: [panic, name].  palette[id] panics when id is not
\* an index of the palette.
get_block_at(b, pos_x, pos_y, pos_z) ==
    LET r == get_block_id_at(b, pos_x, pos_y, pos_z) IN
    IF r.panic \/ r.id >= Len(b.palette)
    THEN [panic |-> TRUE, name |-> ""]
    ELSE [panic |-> FALSE, name |-> b.palette[r.id + 1]]

\* get_block_id_for that always appends.
get_block_id_for_no_lookup(b, block) ==
    [ id |-> Len(b.palette),
      blocks |-> [b EXCEPT !.palette = Append(@, block),
                           !.palette_map = (block :> Len(b.palette)) @@ @] ]

\* Blocks::get_block_id_for: [id, blocks]
get_block_id_for(b, block) ==
    IF block \in DOMAIN b.palette_map
    THEN [id |-> b.palette_map[block], blocks |-> b]
    ELSE LET next_id == Len(b.palette) IN
         [ id |-> next_id,
           blocks |-> [b EXCEPT !.palette = Append(@, block),
                                !.palette_map = (block :> next_id) @@ @] ]

\* Blocks::set_block_id_at: [panic, blocks]
set_block_id_at(b, pos_x, pos_y, pos_z, id) ==
    LET idx == block_index_at(b, pos_x, pos_y, pos_z) IN
    IF ~bounds_check(b, pos_x, pos_y, pos_z) \/ idx >= Len(b.indices)
    THEN [panic |-> TRUE, blocks |-> b]
    ELSE [panic |-> FALSE, blocks |-> [b EXCEPT !.indices[idx + 1] = id]]

\* Blocks::set_block_at: get_block_id_for, then set_block_id_at.  The
\* palette has grown by the time the bounds check can panic.
set_block_at(b, pos_x, pos_y, pos_z, block) ==
    LET g == get_block_id_for(b, block) IN
    set_block_id_at(g.blocks, pos_x, pos_y, pos_z, g.id)

(***************************************************************************)
(* Tagged-tree values (nbt::Value) and errors (lib.rs:9-23).  A compound   *)
(* is a function from its keys to values; an absent key is a key outside   *)
(* its domain.                                                             *)
(***************************************************************************)
NbtInt(v) == [ty |-> "Int", v |-> v]
NbtShort(v) == [ty |-> "Short", v |-> v]
NbtString(v) == [ty |-> "String", v |-> v]
NbtCompound(m) == [ty |-> "Compound", v |-> m]
NbtByteArray(a) == [ty |-> "ByteArray", v |-> a]
NbtIntArray(a) == [ty |-> "IntArray", v |-> a]
NbtList(l) == [ty |-> "List", v |-> l]

EmptyMap == <<>>
Insert(m, k, v) == (k :> v) @@ m
Remove(m, k) == [j \in DOMAIN m \ {k} |-> m[j]]

\* SchematicFormat (lib.rs:35-57)
Sponge(version) == [family |-> "Sponge", version |-> version]
Litematica(version) == [family |-> "Litematica", version |-> version]
Schematica(variant) == [family |-> "Schematica" \o variant, version |-> 0]
NoFormat == [family |-> "", version |-> 0]

\* SchematicError (lib.rs:9-23), with InvalidValue as sponge.rs:194 uses it.
UnrecognizedFormat == [kind |-> "UnrecognizedFormat", name |-> "", format |-> NoFormat]
UnsupportedFormat(f) == [kind |-> "UnsupportedFormat", name |-> "", format |-> f]
MissingRequiredField(n) == [kind |-> "MissingRequiredField", name |-> n, format |-> NoFormat]
MistypedField(n) == [kind |-> "MistypedField", name |-> n, format |-> NoFormat]
InvalidValue(n) == [kind |-> "InvalidValue", name |-> n, format |-> NoFormat]

\* The three ways a call ends: Ok(value), Err(error), a panic.
Ok(v) == [kind |-> "Ok", value |-> Some(v), err |-> None]
Err(e) == [kind |-> "Err", value |-> None, err |-> Some(e)]
Panic == [kind |-> "Panic", value |-> None, err |-> None]
IsOk(r) == r.kind = "Ok"
IsErr(r, e) == r.kind = "Err" /\ Unwrap(r.err) = e

\* required_nbt! (sponge.rs:5-13): Ok(payload), Mistyped or Missing.
required_nbt_absent_as_mistyped(nbt, name, ty) ==
    IF name \notin DOMAIN nbt \/ nbt[name].ty # ty THEN Err(MistypedField(name))
    ELSE Ok(nbt[name].v)

required_nbt(nbt, name, ty) ==
    IF name \notin DOMAIN nbt THEN Err(MissingRequiredField(name))
    ELSE IF nbt[name].ty # ty THEN Err(MistypedField(name))
    ELSE Ok(nbt[name].v)

\* typed_nbt! (sponge.rs:15-23): Ok(Some(payload)), Ok(None) or Mistyped.
typed_nbt(nbt, name, ty) ==
    IF name \notin DOMAIN nbt THEN Ok(None)
    ELSE IF nbt[name].ty # ty THEN Err(MistypedField(name))
    ELSE Ok(Some(nbt[name].v))

(***************************************************************************)
(* read_block_container (sponge.rs:25-107).                                *)
(***************************************************************************)

\* The palette loop (sponge.rs:35-41) over the entries in the order the
\* HashMap yields them: [err, blocks, palette], palette the map from wire-id
\* (u32) to the id get_block_id_for assigned.
RECURSIVE read_palette(_, _, _, _)
read_palette(nbt_palette, order, b, palette) ==
    IF order = <<>> THEN [err |-> None, blocks |-> b, palette |-> palette]
    ELSE LET name == Head(order)
             value == nbt_palette[name]
         IN  IF value.ty # "Int"
             THEN [err |-> Some(MistypedField(name)), blocks |-> b, palette |-> palette]
             ELSE LET g == get_block_id_for(b, name) IN
                  read_palette(nbt_palette, Tail(order), g.blocks,
                               Insert(palette, I32AsU32(value.v), g.id))

\* A cell loop that stores the wire-id itself instead of palette[&wire-id].
translate_wire_id_untranslated(palette, blockstate_id) ==
    blockstate_id[2]

\* palette[&blockstate_id] (sponge.rs:66); the caller has checked the key.
translate_wire_id(palette, blockstate_id) ==
    palette[blockstate_id]

\* Cell loops nested x outermost, z middle, y innermost.
RECURSIVE read_cells_x_outermost(_, _, _, _, _, _)
read_cells_x_outermost(block_arr, palette, b, k, i, bld) ==
    IF k >= b.size_x * b.size_y * b.size_z THEN [panic |-> FALSE, blocks |-> b]
    ELSE LET y == k % b.size_y
             z == (k \div b.size_y) % b.size_z
             x == k \div (b.size_y * b.size_z)
             r == read_varint(block_arr, i, bld)
         IN  IF r.panic \/ r.id \notin DOMAIN palette
             THEN [panic |-> TRUE, blocks |-> b]
             ELSE LET w == set_block_id_at(b, x, y, z, palette[r.id]) IN
                  IF w.panic THEN [panic |-> TRUE, blocks |-> b]
                  ELSE read_cells_x_outermost(block_arr, palette, w.blocks, k + 1, r.i, bld)

\* The cell loops (sponge.rs:52-70), cell k of the y/z/x nesting being
\* x = k mod size_x, z = (k div size_x) mod size_z, y = k div (size_x*size_z).
\* [panic, blocks].
RECURSIVE read_cells(_, _, _, _, _, _)
read_cells(block_arr, palette, b, k, i, bld) ==
    IF k >= b.size_x * b.size_y * b.size_z THEN [panic |-> FALSE, blocks |-> b]
    ELSE LET x == k % b.size_x
             z == (k \div b.size_x) % b.size_z
             y == k \div (b.size_x * b.size_z)
             r == read_varint(block_arr, i, bld)
         IN  IF r.panic \/ r.id \notin DOMAIN palette
             THEN [panic |-> TRUE, blocks |-> b]
             ELSE LET w == set_block_id_at(b, x, y, z, translate_wire_id(palette, r.id)) IN
                  IF w.panic THEN [panic |-> TRUE, blocks |-> b]
                  ELSE read_cells(block_arr, palette, w.blocks, k + 1, r.i, bld)

\* The block-entity loop (sponge.rs:75-105): Ok(map from position to
\* BlockEntity), an error, or the panic of pos_array[0..2].
RECURSIVE read_block_entities(_, _, _)
read_block_entities(version, list, block_entities) ==
    IF list = <<>> THEN Ok(block_entities)
    ELSE LET block_entity == Head(list) IN
         IF block_entity.ty # "Compound"
         THEN Err(MistypedField(IF version = 1 THEN "TileEntities" ELSE "BlockEntities"))
         ELSE LET val == block_entity.v
                  pos_array == required_nbt(val, "Pos", "IntArray")
                  id == required_nbt(val, "Id", "String")
              IN  IF ~IsOk(pos_array) THEN pos_array
                  ELSE IF Len(Unwrap(pos_array.value)) < 3 THEN Panic
                  ELSE IF ~IsOk(id) THEN id
                  ELSE LET p == Unwrap(pos_array.value)
                           pos == <<p[1], p[2], p[3]>>
                           data == Remove(Remove(val, "Pos"), "Id")
                       IN  read_block_entities(version, Tail(list),
                               Insert(block_entities, pos,
                                      [id |-> Unwrap(id.value), data |-> data]))

\* read_block_container.  order is the order in which nbt_palette.iter()
\* yields the Palette keys.  Ok([blocks, block_entities]), an error or a
\* panic.
read_block_container(version, size_x, size_y, size_z, nbt, order, bld) ==
    LET blocks0 == BlocksNew(size_x, size_y, size_z, AIR)
        nbt_palette == required_nbt(nbt, "Palette", "Compound")
    IN
    IF ~IsOk(nbt_palette) THEN nbt_palette
    ELSE
    LET pal == read_palette(Unwrap(nbt_palette.value), order, blocks0, EmptyMap) IN
    IF IsSome(pal.err) THEN Err(Unwrap(pal.err))
    ELSE
    LET data_name == IF version = 2 THEN "BlockData" ELSE "Data"
        data == required_nbt(nbt, data_name, "ByteArray")
    IN
    IF version \notin {2, 3} THEN Panic
    ELSE IF ~IsOk(data) THEN data
    ELSE
    LET arr == Unwrap(data.value)
        block_arr == [j \in 1..Len(arr) |-> I8AsU8(arr[j])]
        cells == read_cells(block_arr, pal.palette, pal.blocks, 0, 0, bld)
    IN
    IF cells.panic THEN Panic
    ELSE
    LET nbt_block_entities == typed_nbt(nbt, "BlockEntities", "List") IN
    IF ~IsOk(nbt_block_entities) THEN nbt_block_entities
    ELSE
    LET opt == Unwrap(nbt_block_entities.value)
        list == IF IsSome(opt) THEN Unwrap(opt) ELSE <<>>
        bes == read_block_entities(version, list, EmptyMap)
    IN
    IF ~IsOk(bes) THEN bes
    ELSE Ok([blocks |-> cells.blocks, block_entities |-> Unwrap(bes.value)])

\* The orders in which a HashMap with these keys can be iterated.
RECURSIVE Orders(_)
Orders(keys) ==
    IF keys = {} THEN {<<>>}
    ELSE UNION {{<<k>> \o o : o \in Orders(keys \ {k})} : k \in keys}

\* Some enumeration of a finite set.
RECURSIVE SetToSeq(_)
SetToSeq(S) ==
    IF S = {} THEN <<>>
    ELSE LET e == CHOOSE e \in S : TRUE IN <<e>> \o SetToSeq(S \ {e})

\* The order in which a HashMap with these keys is iterated, given a
\* ranking of keys: ranked keys first, in rank order.
IterOrder(keys, ranking) ==
    LET InKeys(k) == k \in keys
        Ranked == {ranking[j] : j \in 1..Len(ranking)}
    IN  SelectSeq(ranking, InKeys) \o SetToSeq(keys \ Ranked)

(***************************************************************************)
(* sponge::deserialize (sponge.rs:109-186).                                *)
(***************************************************************************)

\* The version < 3 branch of paste_offset (sponge.rs:132-155) on the
\* Metadata compound, if any: Ok([paste_offset, metadata]) or Mistyped.
read_we_offset(metadata) ==
    IF ~IsSome(metadata) THEN Ok([paste_offset |-> None, metadata |-> metadata])
    ELSE LET m == Unwrap(metadata) IN
         IF "WEOffsetX" \notin DOMAIN m
         THEN Ok([paste_offset |-> None, metadata |-> metadata])
         ELSE LET ox == typed_nbt(m, "WEOffsetX", "Int")
                  oy == typed_nbt(m, "WEOffsetY", "Int")
                  oz == typed_nbt(m, "WEOffsetZ", "Int")
                  OrDefault(o) == IF IsSome(Unwrap(o.value)) THEN Unwrap(Unwrap(o.value)) ELSE 0
              IN  IF ~IsOk(ox) THEN ox
                  ELSE IF ~IsOk(oy) THEN oy
                  ELSE IF ~IsOk(oz) THEN oz
                  ELSE Ok([ paste_offset |-> Some(<<OrDefault(ox), OrDefault(oy), OrDefault(oz)>>),
                            metadata |-> Some(Remove(Remove(Remove(m, "WEOffsetX"),
                                                            "WEOffsetY"), "WEOffsetZ")) ])

\* Metadata left as it is after the WEOffset keys were taken out.
normalize_metadata_kept(metadata) == metadata

\* sponge.rs:157-159
normalize_metadata(metadata) ==
    IF IsSome(metadata) /\ DOMAIN Unwrap(metadata) = {} THEN None ELSE metadata

\* sponge::deserialize.  ranking orders the Palette keys (IterOrder).
sponge_deserialize(root, version, ranking, bld) ==
    LET sc == required_nbt(root, "Schematic", "Compound") IN
    IF version \notin {2, 3} THEN Err(UnsupportedFormat(Sponge(version)))
    ELSE IF version = 3 /\ ~IsOk(sc) THEN sc
    ELSE
    LET nbt == IF version = 2 THEN root ELSE Unwrap(sc.value)
        data_version == required_nbt(nbt, "DataVersion", "Int")
        size_x == required_nbt(nbt, "Width", "Short")
        size_y == required_nbt(nbt, "Height", "Short")
        size_z == required_nbt(nbt, "Length", "Short")
        metadata0 == typed_nbt(nbt, "Metadata", "Compound")
    IN
    IF ~IsOk(data_version) THEN data_version
    ELSE IF ~IsOk(size_x) THEN size_x
    ELSE IF ~IsOk(size_y) THEN size_y
    ELSE IF ~IsOk(size_z) THEN size_z
    ELSE IF ~IsOk(metadata0) THEN metadata0
    ELSE
    LET offset == required_nbt(nbt, "Offset", "IntArray")
        we == read_we_offset(Unwrap(metadata0.value))
    IN
    IF version = 3 /\ ~IsOk(offset) THEN offset
    ELSE IF version = 3 /\ Len(Unwrap(offset.value)) # 3 THEN Err(MistypedField("Offset"))
    ELSE IF version # 3 /\ ~IsOk(we) THEN we
    ELSE
    LET paste_offset ==
            IF version = 3
            THEN LET o == Unwrap(offset.value) IN Some(<<o[1], o[2], o[3]>>)
            ELSE Unwrap(we.value).paste_offset
        metadata ==
            normalize_metadata(IF version = 3 THEN Unwrap(metadata0.value)
                               ELSE Unwrap(we.value).metadata)
        origin0 == typed_nbt(nbt, "Offset", "IntArray")
    IN
    IF version < 3 /\ ~IsOk(origin0) THEN origin0
    ELSE IF version < 3 /\ IsSome(Unwrap(origin0.value))
                        /\ Len(Unwrap(Unwrap(origin0.value))) < 3 THEN Panic
    ELSE
    LET origin ==
            IF version < 3 /\ IsSome(Unwrap(origin0.value))
            THEN LET vec == Unwrap(Unwrap(origin0.value)) IN Some(<<vec[1], vec[2], vec[3]>>)
            ELSE None
        bc == required_nbt(nbt, "Blocks", "Compound")
    IN
    IF version = 3 /\ ~IsOk(bc) THEN bc
    ELSE
    LET block_container == IF version = 3 THEN Unwrap(bc.value) ELSE nbt
        keys == IF "Palette" \in DOMAIN block_container
                   /\ block_container["Palette"].ty = "Compound"
                THEN DOMAIN block_container["Palette"].v ELSE {}
        rbc == read_block_container(version, Unwrap(size_x.value), Unwrap(size_y.value),
                                    Unwrap(size_z.value), block_container,
                                    IterOrder(keys, ranking), bld)
    IN
    IF ~IsOk(rbc) THEN rbc
    ELSE Ok([ blocks         |-> Unwrap(rbc.value).blocks,
              data_version   |-> Some(Unwrap(data_version.value)),
              paste_offset   |-> paste_offset,
              origin         |-> origin,
              biomes         |-> None,
              block_entities |-> Unwrap(rbc.value).block_entities,
              metadata       |-> metadata ])

(***************************************************************************)
(* Schematic::deserialize (lib.rs:197-223) on the decompressed root.       *)
(***************************************************************************)

\* A detection that tries the nested Schematic tag whenever the root
\* Version did not select a reader.
detect_flat(root) ==
    LET hasVersion == "Version" \in DOMAIN root /\ root["Version"].ty = "Int" IN
    IF hasVersion /\ "Regions" \in DOMAIN root
    THEN [to |-> "Litematica", version |-> root["Version"].v]
    ELSE IF hasVersion /\ root["Version"].v \in {1, 2}
    THEN [to |-> "sponge", version |-> root["Version"].v]
    ELSE IF "Schematic" \in DOMAIN root /\ root["Schematic"].ty = "Compound"
            /\ "Version" \in DOMAIN root["Schematic"].v
            /\ root["Schematic"].v["Version"].ty = "Int"
            /\ root["Schematic"].v["Version"].v = 3
    THEN [to |-> "sponge", version |-> 3]
    ELSE [to |-> "Unrecognized", version |-> 0]

\* The nested conditionals of lib.rs:200-222: where the document goes.
detect(root) ==
    IF "Version" \in DOMAIN root /\ root["Version"].ty = "Int"
    THEN LET version == root["Version"].v IN
         IF "Regions" \in DOMAIN root
         THEN [to |-> "Litematica", version |-> version]
         ELSE IF version \in {1, 2}
         THEN [to |-> "sponge", version |-> version]
         ELSE [to |-> "Unrecognized", version |-> 0]
    ELSE IF "Schematic" \in DOMAIN root /\ root["Schematic"].ty = "Compound"
    THEN LET schem_compound == root["Schematic"].v IN
         IF "Version" \in DOMAIN schem_compound /\ schem_compound["Version"].ty = "Int"
            /\ schem_compound["Version"].v = 3
         THEN [to |-> "sponge", version |-> 3]
         ELSE [to |-> "Unrecognized", version |-> 0]
    ELSE [to |-> "Unrecognized", version |-> 0]

Schematic_deserialize(root, ranking, bld) ==
    LET d == detect(root) IN
    IF d.to = "Litematica" THEN Err(UnsupportedFormat(Litematica(d.version)))
    ELSE IF d.to = "sponge" THEN sponge_deserialize(root, d.version, ranking, bld)
    ELSE Err(UnrecognizedFormat)

(***************************************************************************)
(* write_block_container (sponge.rs:200-251) and sponge::serialize         *)
(* (sponge.rs:253-330).                                                    *)
(***************************************************************************)

\* The cell loops of the encoder (sponge.rs:212-231) from cell k on, in the
\* y/z/x nesting: [panic, bytes].
RECURSIVE write_cells(_, _)
write_cells(b, k) ==
    IF k >= b.size_x * b.size_y * b.size_z THEN [panic |-> FALSE, bytes |-> <<>>]
    ELSE LET x == k % b.size_x
             z == (k \div b.size_x) % b.size_z
             y == k \div (b.size_x * b.size_z)
             g == get_block_id_at(b, x, y, z)
             rest == write_cells(b, k + 1)
         IN  IF g.panic \/ rest.panic THEN [panic |-> TRUE, bytes |-> <<>>]
             ELSE [panic |-> FALSE, bytes |-> write_varint(U32(g.id)) \o rest.bytes]

\* The block-entity loop of the encoder (sponge.rs:239-246), over the
\* positions in the order the HashMap yields them.
RECURSIVE write_block_entities(_, _)
write_block_entities(block_entities, order) ==
    IF order = <<>> THEN <<>>
    ELSE LET pos == Head(order)
             block_entity == block_entities[pos]
             data == Insert(Insert(block_entity.data, "Id", NbtString(block_entity.id)),
                            "Pos", NbtIntArray(<<pos[1], pos[2], pos[3]>>))
         IN  <<NbtCompound(data)>> \o write_block_entities(block_entities, Tail(order))

\* write_block_container: Ok(nbt with the container's tags inserted) or a
\* panic.
write_block_container(version, b, block_entities, nbt, beOrder) ==
    LET palette == [name \in {b.palette[j] : j \in 1..Len(b.palette)} |->
                       NbtInt((CHOOSE j \in 1..Len(b.palette) :
                                  /\ b.palette[j] = name
                                  /\ \A h \in (j + 1)..Len(b.palette) : b.palette[h] # name) - 1)]
        cells == write_cells(b, 0)
        data_name == IF version = 2 THEN "BlockData" ELSE "Data"
    IN
    IF cells.panic \/ version \notin {2, 3} THEN Panic
    ELSE Ok(Insert(Insert(Insert(nbt, "Palette", NbtCompound(palette)),
                          data_name, NbtByteArray(cells.bytes)),
                   "BlockEntities",
                   NbtList(write_block_entities(block_entities, beOrder))))

\* The metadata the writer assembles (sponge.rs:271-284).
assemble_metadata(s, version) ==
    IF (version < 3 /\ IsSome(s.paste_offset)) \/ IsSome(s.metadata)
    THEN LET metadata == IF IsSome(s.metadata) THEN Unwrap(s.metadata) ELSE EmptyMap IN
         IF version < 3 /\ IsSome(s.paste_offset)
         THEN LET offset == Unwrap(s.paste_offset) IN
              Some(Insert(Insert(Insert(metadata, "WEOffsetX", NbtInt(offset[1])),
                                 "WEOffsetY", NbtInt(offset[2])),
                          "WEOffsetZ", NbtInt(offset[3])))
         ELSE Some(metadata)
    ELSE None

\* sponge::serialize.  The metadata map of sponge.rs:271-284 is a local of
\* that block and goes out of scope at line 284 without being inserted into
\* nbt, so the document carries no Metadata tag.  The bytes are the gzip
\* framing of the root, which the reader undoes: the root stands for them.
sponge_serialize(s, version, beOrder) ==
    LET nbt0 == "Version" :> NbtInt(version) IN
    IF ~IsSome(s.data_version) THEN Err(MissingRequiredField("DataVersion"))
    ELSE
    LET nbt1 == Insert(nbt0, "DataVersion", NbtInt(Unwrap(s.data_version))) IN
    IF s.blocks.size_x > 32767 THEN Err(InvalidValue("Width"))
    ELSE IF s.blocks.size_y > 32767 THEN Err(InvalidValue("Height"))
    ELSE IF s.blocks.size_z > 32767 THEN Err(InvalidValue("Length"))
    ELSE
    LET nbt2 == Insert(Insert(Insert(nbt1, "Width", NbtShort(s.blocks.size_x)),
                              "Height", NbtShort(s.blocks.size_y)),
                       "Length", NbtShort(s.blocks.size_z))
    IN
    IF version = 3 /\ ~IsSome(s.paste_offset) THEN Err(MissingRequiredField("Offset"))
    ELSE
    LET nbt3 == IF version = 3
                THEN Insert(nbt2, "Offset", NbtIntArray(Unwrap(s.paste_offset)))
                ELSE IF IsSome(s.origin)
                THEN Insert(nbt2, "Offset", NbtIntArray(Unwrap(s.origin)))
                ELSE nbt2
        flat == write_block_container(version, s.blocks, s.block_entities, nbt3, beOrder)
        container == write_block_container(version, s.blocks, s.block_entities,
                                           EmptyMap, beOrder)
    IN
    IF version < 3
    THEN (IF ~IsOk(flat) THEN Panic
          ELSE IF version = 2 THEN Ok(Unwrap(flat.value)) ELSE Panic)
    ELSE IF ~IsOk(container) THEN Panic
    ELSE IF version = 3
    THEN Ok("Schematic" :> NbtCompound(Insert(nbt3, "Blocks",
                                              NbtCompound(Unwrap(container.value)))))
    ELSE Panic

(***************************************************************************)
(* Schematic::serialize (lib.rs:229-235).                                  *)
(***************************************************************************)

Schematic_serialize(s, format, beOrder) ==
    IF format.family = "Sponge" /\ format.version = 3
    THEN sponge_serialize(s, format.version, beOrder)
    ELSE Err(UnsupportedFormat(format))

(***************************************************************************)
(* Inputs of the state machines.                                           *)
(***************************************************************************)
Builds == {"debug", "release"}

Dims == 0..MaxDim

\* Wire-ids used in Palette tags: one-byte and two-byte varints.
WireIds == {0, 129}

\* Palette tags: every map from at most two names to wire-ids (two names may
\* share a wire-id).
PaletteDocs ==
    {[k \in DOMAIN f |-> NbtInt(f[k])] :
        f \in UNION {[ks -> WireIds] : ks \in {k \in SUBSET Names : Cardinality(k) <= 2}}}

\* Block-data bytes (i8): 0, 1, and 0x81, the low group of 129 with the
\* continuation bit.
DataBytes == {0, 1, -127}

\* All byte arrays of at most n bytes.
RECURSIVE ByteSeqs(_)
ByteSeqs(n) ==
    IF n = 0 THEN {<<>>}
    ELSE LET shorter == ByteSeqs(n - 1) IN
         shorter \cup {Append(q, b) : q \in {q \in shorter : Len(q) = n - 1}, b \in DataBytes}

\* Byte arrays holding a varint of six bytes: five continuation bytes, then
\* a final byte.
BlockDataSamples == ByteSeqs(MaxBytes)

LongVarints == {<<-128, -128, -128, -128, -128, 0>>, <<-127, -128, -128, -128, -128, 1>>,
                <<-128, -128, -128, -128, -128, -128>>}

NoCall == [op |-> "new", x |-> 0, y |-> 0, z |-> 0, id |-> 0, name |-> "", kind |-> "Ok"]

BlocksIdle == blocks = BlocksNew(0, 0, 0, AIR) /\ call = NoCall /\ nOps = 0
VarintIdle == vin = <<0, 0>> /\ vout = <<>> /\ vpc = "idle"
CodecIdle ==
    /\ doc = EmptyMap /\ schem = None /\ fmt = NoFormat
    /\ ser = Panic /\ outcome = Panic /\ reader = None /\ cpc = "idle"

(***************************************************************************)
(* SpecBlocks: a Blocks value after Blocks::new, driven through its public *)
(* operations and through read_block_container.                            *)
(***************************************************************************)
\* set_block_at applied to the cells k, k + 1, ... in index order, cell k
\* being given the name k mod 3 of the sequence air, stone, dirt.
RECURSIVE Striped(_, _)
Striped(b, k) ==
    IF k >= b.size_x * b.size_y * b.size_z THEN b
    ELSE LET x == k \div (b.size_y * b.size_z)
             y == (k \div b.size_z) % b.size_y
             z == k % b.size_z
             name == <<AIR, "minecraft:stone", "minecraft:dirt">>[(k % 3) + 1]
         IN  Striped(set_block_at(b, x, y, z, name).blocks, k + 1)

\* The value is fresh from Blocks::new, or has then been filled cell by cell
\* through set_block_at.  No operation of this machine reaches an overflow
\* check within the bounds, so the build profile is left fixed.
InitBlocks ==
    /\ \E size_x \in Dims, size_y \in Dims, size_z \in Dims, initial_block \in Names,
          filled \in BOOLEAN :
           blocks = IF filled
                    THEN Striped(BlocksNew(size_x, size_y, size_z, initial_block), 0)
                    ELSE BlocksNew(size_x, size_y, size_z, initial_block)
    /\ call = NoCall
    /\ nOps = 0
    /\ build = "debug"
    /\ VarintIdle
    /\ CodecIdle

\* Positions handed to the operations: every in-bounds position and, for
\* each axis, the first position past it.
InBounds(b) ==
    {<<x, y, z>> : x \in 0..(b.size_x - 1), y \in 0..(b.size_y - 1), z \in 0..(b.size_z - 1)}
Positions(b) ==
    InBounds(b) \cup {<<b.size_x, 0, 0>>, <<0, b.size_y, 0>>, <<0, 0, b.size_z>>}

GetBlockIdFor ==
    /\ nOps < MaxOps
    /\ \E name \in Names :
           LET r == get_block_id_for(blocks, name) IN
           /\ blocks' = r.blocks
           /\ call' = [op |-> "get_block_id_for", x |-> 0, y |-> 0, z |-> 0,
                       id |-> r.id, name |-> name, kind |-> "Ok"]
    /\ nOps' = nOps + 1
    /\ UNCHANGED <<build, varintVars, codecVars>>

GetBlockAt ==
    /\ nOps < MaxOps
    /\ \E pos \in Positions(blocks) :
           LET x == pos[1]  y == pos[2]  z == pos[3] IN
           LET r == get_block_at(blocks, x, y, z) IN
           call' = [op |-> "get_block_at", x |-> x, y |-> y, z |-> z, id |-> 0,
                    name |-> r.name, kind |-> IF r.panic THEN "Panic" ELSE "Ok"]
    /\ nOps' = nOps + 1
    /\ UNCHANGED <<blocks, build, varintVars, codecVars>>

SetBlockIdAt ==
    /\ nOps < MaxOps
    /\ \E pos \in Positions(blocks), id \in 0..MaxRawId :
           LET x == pos[1]  y == pos[2]  z == pos[3] IN
           LET r == set_block_id_at(blocks, x, y, z, id) IN
           /\ blocks' = r.blocks
           /\ call' = [op |-> "set_block_id_at", x |-> x, y |-> y, z |-> z, id |-> id,
                       name |-> "", kind |-> IF r.panic THEN "Panic" ELSE "Ok"]
    /\ nOps' = nOps + 1
    /\ UNCHANGED <<build, varintVars, codecVars>>

SetBlockAt ==
    /\ nOps < MaxOps
    /\ \E pos \in Positions(blocks), name \in Names :
           LET x == pos[1]  y == pos[2]  z == pos[3] IN
           LET r == set_block_at(blocks, x, y, z, name) IN
           /\ blocks' = r.blocks
           /\ call' = [op |-> "set_block_at", x |-> x, y |-> y, z |-> z,
                       id |-> get_block_id_for(blocks, name).id,
                       name |-> name, kind |-> IF r.panic THEN "Panic" ELSE "Ok"]
    /\ nOps' = nOps + 1
    /\ UNCHANGED <<build, varintVars, codecVars>>

\* read_block_container called with the dimensions of the current value on
\* a container holding a Palette and a block-data array: the Blocks it
\* builds replaces the current one.
ReadBlockContainer ==
    /\ nOps = 0
    /\ blocks.palette = <<AIR>>
    /\ \E version \in {2, 3}, pal \in PaletteDocs, data \in BlockDataSamples :
       \E order \in Orders(DOMAIN pal) :
           LET nbt == Insert(Insert(EmptyMap, "Palette", NbtCompound(pal)),
                             IF version = 2 THEN "BlockData" ELSE "Data",
                             NbtByteArray(data))
               r == read_block_container(version, blocks.size_x, blocks.size_y,
                                         blocks.size_z, nbt, order, build)
           IN  /\ blocks' = IF IsOk(r) THEN Unwrap(r.value).blocks ELSE blocks
               /\ call' = [op |-> "read_block_container", x |-> 0, y |-> 0, z |-> 0,
                           id |-> 0, name |-> "", kind |-> r.kind]
    /\ nOps' = nOps + 1
    /\ UNCHANGED <<build, varintVars, codecVars>>

NextBlocks ==
    \/ GetBlockIdFor
    \/ GetBlockAt
    \/ SetBlockIdAt
    \/ SetBlockAt
    \/ ReadBlockContainer

SpecBlocks == InitBlocks /\ [][NextBlocks]_vars

(***************************************************************************)
(* Claims about Blocks, checked under SpecBlocks.                          *)
(***************************************************************************)

\* The position-to-offset map is injective on the in-bounds positions and
\* lands inside [0, size_x * size_y * size_z).
OffsetsInjective(b) ==
    LET offsets == {block_index_at(b, p[1], p[2], p[3]) : p \in InBounds(b)} IN
    /\ Cardinality(offsets) = Cardinality(InBounds(b))
    /\ \A k \in offsets : k < b.size_x * b.size_y * b.size_z

\* A step that is an in-bounds set_block_id_at(x, y, z, id): it does not
\* panic, get_block_id_at(x, y, z) then returns id, every other in-bounds
\* position reads as before, and palette and dimensions are unchanged.
WriteStepFrame ==
    (call'.op = "set_block_id_at" /\ bounds_check(blocks, call'.x, call'.y, call'.z)) =>
        /\ call'.kind = "Ok"
        /\ get_block_id_at(blocks', call'.x, call'.y, call'.z)
               = [panic |-> FALSE, id |-> call'.id]
        /\ \A p \in InBounds(blocks) \ {<<call'.x, call'.y, call'.z>>} :
               get_block_id_at(blocks', p[1], p[2], p[3])
                   = get_block_id_at(blocks, p[1], p[2], p[3])
        /\ blocks'.palette = blocks.palette
        /\ blocks'.palette_map = blocks.palette_map
        /\ <<blocks'.size_x, blocks'.size_y, blocks'.size_z>>
               = <<blocks.size_x, blocks.size_y, blocks.size_z>>

PaletteConsistent(b) ==
    /\ \A i, j \in 1..Len(b.palette) : b.palette[i] = b.palette[j] => i = j
    /\ DOMAIN b.palette_map = {b.palette[i] : i \in 1..Len(b.palette)}
    /\ \A name \in DOMAIN b.palette_map :
           /\ b.palette_map[name] < Len(b.palette)
           /\ \A i \in 0..(Len(b.palette) - 1) :
                  b.palette_map[name] = i <=> b.palette[i + 1] = name

\* A step of one of the operations on the same value: no name changes its
\* id, and get_block_id_for returns the existing id of a known name without
\* growing the palette, and the old palette length for a new name.
PaletteStep ==
    call'.op \in {"get_block_id_for", "get_block_at", "set_block_id_at", "set_block_at"} =>
        /\ \A name \in DOMAIN blocks.palette_map :
               /\ name \in DOMAIN blocks'.palette_map
               /\ blocks'.palette_map[name] = blocks.palette_map[name]
        /\ call'.op = "get_block_id_for" =>
               IF call'.name \in DOMAIN blocks.palette_map
               THEN /\ call'.id = blocks.palette_map[call'.name]
                    /\ Len(blocks'.palette) = Len(blocks.palette)
               ELSE /\ call'.id = Len(blocks.palette)
                    /\ Len(blocks'.palette) = Len(blocks.palette) + 1

\* C8: palette deduplication.  After any sequence of new, get_block_id_for,
\* set_block_at and set_block_id_at the palette has no duplicate name and
\* palette_map[name] = i exactly when palette[i] = name; get_block_id_for on
\* a known name returns its id and leaves the palette length unchanged, a
\* new name receives the palette length before the call, and no name's id
\* ever changes.
C8_PaletteDeduplication ==
    /\ []PaletteConsistent(blocks)
    /\ [][PaletteStep]_vars

\* C8 witness: get_block_id_for of a name that was already in a palette of
\* three names returned its id 0 (a new name would have received 2).
C8_Witness ==
    /\ call.op = "get_block_id_for"
    /\ Len(blocks.palette) = 3
    /\ call.id = 0
    /\ blocks.palette[1] = call.name

\* Every entry of indices is an index of the palette.
IndicesValid(b) ==
    \A i \in 1..Len(b.indices) : b.indices[i] < Len(b.palette)

VarintInputs ==
    {<<hi, lo>> : hi \in {0, 1, 31, 32, 4095, 4096, 32767, 32768, 65535},
                  lo \in {0, 1, 127, 128, 129, 255, 256, 16383, 16384, 65535}}

InitVarint ==
    /\ vin \in VarintInputs
    /\ vout = <<>>
    /\ vpc = "start"
    /\ build \in Builds
    /\ BlocksIdle
    /\ CodecIdle

\* sponge.rs:216-228 for one cell.
EncodeVarint ==
    /\ vpc = "start"
    /\ vout' = [bytes |-> write_varint(vin), panic |-> FALSE, id |-> <<0, 0>>, i |-> 0]
    /\ vpc' = "encoded"
    /\ UNCHANGED <<vin, build, blocksVars, codecVars>>

\* sponge.rs:48-65 for one cell: the i8 bytes are read as u8, and the loop
\* starts at offset 0.
DecodeVarint ==
    /\ vpc = "encoded"
    /\ LET block_arr == [j \in 1..Len(vout.bytes) |-> I8AsU8(vout.bytes[j])]
           r == read_varint(block_arr, 0, build)
       IN  vout' = [bytes |-> vout.bytes, panic |-> r.panic, id |-> r.id, i |-> r.i]
    /\ vpc' = "decoded"
    /\ UNCHANGED <<vin, build, blocksVars, codecVars>>

NextVarint ==
    \/ EncodeVarint
    \/ DecodeVarint

SpecVarint == InitVarint /\ [][NextVarint]_vars

\* The number of 7-bit groups of a u32: k with 2^(7(k-1)) <= n < 2^(7k).
MinimalLength(n) ==
    IF n[1] = 0 /\ n[2] < 128 THEN 1
    ELSE IF n[1] = 0 /\ n[2] < 16384 THEN 2
    ELSE IF n[1] < 32 THEN 3
    ELSE IF n[1] < 4096 THEN 4
    ELSE 5

\* C9: varint round-trip.  The bytes the encoder emits for a palette id n
\* in [0, 2^32) are as many as n has 7-bit groups (at most 5), every byte
\* but the last has the high bit set (is negative as i8) and the last has it
\* clear; the decoder reads them back to n, consuming exactly those bytes.
C9_VarintRoundTrip ==
    /\ vpc \in {"encoded", "decoded"} =>
           /\ Len(vout.bytes) = MinimalLength(vin)
           /\ \A j \in 1..(Len(vout.bytes) - 1) : vout.bytes[j] < 0
           /\ vout.bytes[Len(vout.bytes)] >= 0
    /\ vpc = "decoded" =>
           /\ ~vout.panic
           /\ vout.id = vin
           /\ vout.i = Len(vout.bytes)

\* C9 witness: 2^32 - 1 has gone through the encoder and the decoder as
\* five bytes.
C9_Witness ==
    /\ vpc = "decoded"
    /\ vin = <<65535, 65535>>
    /\ Len(vout.bytes) = 5
    /\ vout.id = <<65535, 65535>>

(***************************************************************************)
(* Documents handed to Schematic::deserialize.  A document is built from a *)
(* descriptor: what the root Version, Regions and Schematic tags are, the  *)
(* state (ok, absent, mistyped) of each tag of the schematic compound, and *)
(* the payloads of those tags.                                             *)
(***************************************************************************)
BodyTags == {"DataVersion", "Width", "Height", "Length", "Metadata", "Offset",
             "Blocks", "Palette", "Data", "BlockEntities"}

\* A tag of a type no reader expects at any key, with the payload of value.
Mistyped(value) == [ty |-> "Float", v |-> value.v]

\* A tag in the state the descriptor gives it.
Tag(m, c, tag, name, value) ==
    IF c.st[tag] = "ok" THEN Insert(m, name, value)
    ELSE IF c.st[tag] = "mistyped" THEN Insert(m, name, Mistyped(value))
    ELSE m

\* The block container's tags for layout version v, added to m.
ContainerTags(m, c, v) ==
    Tag(Tag(Tag(m, c, "Palette", "Palette", NbtCompound(c.pal)),
            c, "Data", IF v = 3 THEN "Data" ELSE "BlockData", NbtByteArray(c.data)),
        c, "BlockEntities", "BlockEntities", NbtList(c.ents))

\* The schematic compound's tags for layout version v, added to m.
BodyTagsOf(m, c, v) ==
    LET head == Tag(Tag(Tag(Tag(Tag(Tag(m,
                    c, "DataVersion", "DataVersion", NbtInt(3700)),
                    c, "Width", "Width", NbtShort(c.dims[1])),
                    c, "Height", "Height", NbtShort(c.dims[2])),
                    c, "Length", "Length", NbtShort(c.dims[3])),
                    c, "Metadata", "Metadata", NbtCompound(c.meta)),
                    c, "Offset", "Offset", NbtIntArray(c.offset))
    IN  IF v = 3 THEN Tag(head, c, "Blocks", "Blocks", NbtCompound(ContainerTags(EmptyMap, c, 3)))
        ELSE ContainerTags(head, c, 2)

VersionTag(m, ty, val) ==
    IF ty = "Int" THEN Insert(m, "Version", NbtInt(val))
    ELSE IF ty = "mistyped" THEN Insert(m, "Version", Mistyped(NbtInt(val)))
    ELSE m

\* The root of the document a descriptor stands for.
Doc(c) ==
    LET r0 == VersionTag(EmptyMap, c.verTy, c.verVal)
        r1 == IF c.regions THEN Insert(r0, "Regions", NbtCompound(EmptyMap)) ELSE r0
        r2 == IF c.flat THEN BodyTagsOf(r1, c, 2) ELSE r1
    IN  IF c.nested = "Compound"
        THEN Insert(r2, "Schematic",
                    NbtCompound(BodyTagsOf(VersionTag(EmptyMap, c.nverTy, c.nverVal), c, 3)))
        ELSE IF c.nested = "mistyped" THEN Insert(r2, "Schematic", Mistyped(NbtCompound(EmptyMap)))
        ELSE r2

\* The version-2 document of tests/sponge.rs: a 2 x 2 x 2 cuboid, Metadata
\* holding WEOffsetX/Y/Z = (1, 0, 1) only, Offset = (1, 0, 2).
FixtureV2 ==
    [ verTy |-> "Int", verVal |-> 2, regions |-> FALSE, flat |-> TRUE,
      nested |-> "absent", nverTy |-> "absent", nverVal |-> 0,
      st |-> [t \in BodyTags |-> IF t = "Blocks" THEN "absent" ELSE "ok"],
      dims |-> <<2, 2, 2>>,
      meta |-> ("WEOffsetX" :> NbtInt(1) @@ "WEOffsetY" :> NbtInt(0) @@ "WEOffsetZ" :> NbtInt(1)),
      offset |-> <<1, 0, 2>>,
      pal |-> (AIR :> NbtInt(0) @@ "minecraft:stone" :> NbtInt(1)),
      data |-> <<0, 1, 1, 0, 0, 0, 1, 1>>,
      ents |-> <<>> ]

\* The same content in the version-3 layout.
FixtureV3 ==
    [FixtureV2 EXCEPT !.verTy = "absent", !.flat = FALSE, !.nested = "Compound",
                      !.nverTy = "Int", !.nverVal = 3, !.st["Blocks"] = "ok"]

Layouts == {FixtureV2, FixtureV3}

VersionChoices ==
    {<<"absent", 0>>, <<"mistyped", 0>>} \cup {<<"Int", n>> : n \in {0, 1, 2, 3, 7}}

\* Detection: every root Version, with and without Regions, with and
\* without a flat body, with every kind of Schematic tag.
DetectDocs ==
    {[FixtureV2 EXCEPT !.verTy = ver[1], !.verVal = ver[2], !.regions = reg, !.flat = flat,
                       !.nested = nest, !.nverTy = nver[1], !.nverVal = nver[2],
                       !.st["Blocks"] = "ok"] :
        ver \in VersionChoices, reg \in BOOLEAN, flat \in BOOLEAN,
        nest \in {"absent", "mistyped", "Compound"}, nver \in VersionChoices}

\* Tag states: every combination of ok / absent / mistyped over the tags of
\* the schematic compound (Height and Length follow Width).
TagStates ==
    {[t \in BodyTags |-> IF t \in {"Height", "Length"} THEN f["Width"] ELSE f[t]] :
        f \in [BodyTags \ {"Height", "Length"} -> {"ok", "absent", "mistyped"}]}

TagDocs ==
    {[FixtureV2 EXCEPT !.st = st] : st \in {q \in TagStates : q["Blocks"] = "absent"}}
        \cup {[FixtureV3 EXCEPT !.st = st] : st \in TagStates}

\* Metadata compounds: each WEOffset key absent, an integer or of another
\* type, with and without one other entry.
MetaKey(m, present, key, value) == IF present = "absent" THEN m
                                   ELSE IF present = "mistyped" THEN Insert(m, key, Mistyped(value))
                                   ELSE Insert(m, key, value)
MetaSamples ==
    {MetaKey(MetaKey(MetaKey(MetaKey(EmptyMap, a, "Author", NbtString("me")),
                             x, "WEOffsetX", NbtInt(1)), y, "WEOffsetY", NbtInt(5)),
             z, "WEOffsetZ", NbtInt(-3)) :
        a \in {"absent", "ok"}, x \in {"absent", "ok", "mistyped"},
        y \in {"absent", "ok", "mistyped"}, z \in {"absent", "ok", "mistyped"}}

MetaDocs ==
    {[l EXCEPT !.meta = m, !.verVal = v, !.st["Offset"] = o] :
        l \in Layouts, m \in MetaSamples, v \in {1, 2}, o \in {"ok", "absent"}}

\* Block data: dimensions of at most MaxBytes + 1 cells, every Palette tag
\* and every byte array of the samples.
DocDims ==
    {<<0, 1, 1>>} \cup {d \in (1..MaxDim) \X (1..MaxDim) \X (1..MaxDim) :
                            d[1] * d[2] * d[3] <= MaxBytes + 1}

DataDocs ==
    {[l EXCEPT !.dims = d, !.pal = pal, !.data = data] :
        l \in Layouts, d \in DocDims, pal \in PaletteDocs,
        data \in BlockDataSamples \cup LongVarints}

\* Offset arrays of every length up to 4, and block-entity lists.
Entity(pos, id) == NbtCompound("Pos" :> NbtIntArray(pos) @@ "Id" :> NbtString(id)
                                   @@ "Items" :> NbtInt(7))
EntitySamples ==
    { <<>>,
      <<Entity(<<0, 0, 0>>, "minecraft:chest")>>,
      <<Entity(<<0, 0>>, "minecraft:chest")>>,
      <<Entity(<<0, 0, 0, 0>>, "minecraft:chest")>>,
      <<NbtCompound("Id" :> NbtString("minecraft:chest"))>>,
      <<NbtCompound("Pos" :> NbtIntArray(<<0, 0, 0>>))>>,
      <<NbtCompound("Pos" :> NbtIntArray(<<0, 0>>))>>,
      <<NbtCompound("Pos" :> NbtIntArray(<<0, 0, 0>>) @@ "Id" :> Mistyped(NbtString("minecraft:chest")))>>,
      <<Mistyped(Entity(<<0, 0, 0>>, "minecraft:chest"))>>,
      <<Entity(<<0, 0, 0>>, "minecraft:chest"), Entity(<<1, 0, 1>>, "minecraft:sign")>>,
      <<Entity(<<0, 0, 0>>, "minecraft:chest"), Entity(<<0, 0, 0>>, "minecraft:sign")>> }

OffsetDocs ==
    {[l EXCEPT !.offset = SubSeq(<<1, 0, 2, 9>>, 1, n), !.ents = ents] :
        l \in Layouts, n \in 0..4, ents \in EntitySamples}

\* Cuboids of four and eight cells whose Palette wire-ids are, or are not,
\* the ids the in-memory palette assigns, with one varint per cell.
OrderDocs ==
    {[l EXCEPT !.dims = d, !.pal = pal, !.data = data] :
        l \in Layouts,
        d \in {<<2, 2, 2>>, <<2, 1, 2>>, <<1, 2, 2>>, <<2, 2, 1>>},
        pal \in {AIR :> NbtInt(1) @@ "minecraft:stone" :> NbtInt(0),
                 AIR :> NbtInt(129) @@ "minecraft:stone" :> NbtInt(0),
                 "minecraft:dirt" :> NbtInt(0) @@ "minecraft:stone" :> NbtInt(129)},
        data \in {<<0, 1, 1, 0>>, <<-127, 1, 0, 0, -127, 1>>, <<0, 1, 1, 0, 0, 0, 1, 1>>,
                  <<0, -127, 1, -127, 1, 0, 0, 0, -127, 1, -127, 1>>}}

Descriptors == DetectDocs \cup TagDocs \cup MetaDocs \cup DataDocs \cup OffsetDocs \cup OrderDocs

(***************************************************************************)
(* Schematics handed to Schematic::serialize.                              *)
(***************************************************************************)
Formats ==
    {Sponge(v) : v \in {0, 1, 2, 3, 4}} \cup {Litematica(v) : v \in {2, 3, 6}}
        \cup {Schematica("Alpha"), Schematica("Structure")}

SchemDims == DocDims \cup {<<40000, 0, 1>>, <<0, 40000, 1>>, <<1, 0, 40000>>}

SchemBlocks ==
    {IF filled THEN Striped(BlocksNew(d[1], d[2], d[3], initial_block), 0)
     ELSE BlocksNew(d[1], d[2], d[3], initial_block) :
        d \in SchemDims, initial_block \in {AIR, "minecraft:stone"}, filled \in BOOLEAN}

Chest == [id |-> "minecraft:chest", data |-> ("Items" :> NbtInt(7))]
Sign == [id |-> "minecraft:sign", data |-> EmptyMap]
BlockEntitySamples ==
    {EmptyMap, <<0, 0, 0>> :> Chest, (<<0, 0, 0>> :> Chest) @@ (<<1, 0, 1>> :> Sign)}

MetadataSamples ==
    {None, Some(EmptyMap), Some("Author" :> NbtString("me")),
     Some("Author" :> NbtString("me") @@ "WEOffsetX" :> NbtInt(9))}

OffsetSamples == {None, Some(<<1, 0, 1>>)}
OriginSamples == {None, Some(<<1, 0, 2>>)}
DataVersionSamples == {None, Some(3700)}

Schematics ==
    [ blocks : SchemBlocks, origin : OriginSamples, paste_offset : OffsetSamples,
      biomes : {None}, data_version : DataVersionSamples,
      block_entities : BlockEntitySamples, metadata : MetadataSamples ]

(***************************************************************************)
(* SpecCodec: Schematic::deserialize applied to a document; and            *)
(* Schematic::serialize applied to a Schematic, then Schematic::deserialize*)
(* applied to the bytes it returned.                                       *)
(***************************************************************************)
InitCodec ==
    /\ \/ /\ \E c \in Descriptors : doc = Doc(c)
          /\ schem = None
          /\ fmt = NoFormat
          /\ cpc = "doc"
       \/ /\ doc = EmptyMap
          /\ schem \in {Some(s) : s \in Schematics}
          /\ fmt \in Formats
          /\ cpc = "schem"
    /\ ser = Panic
    /\ outcome = Panic
    /\ reader = None
    /\ build \in Builds
    /\ BlocksIdle
    /\ VarintIdle

\* Schematic::deserialize; the gzip and tagged-tree parsing of lib.rs:198-199
\* has produced the root.  The ranking is the order in which the Palette
\* compound's HashMap yields its keys.
Deserialize ==
    /\ cpc \in {"doc", "serialized"}
    /\ \E ranking \in Orders(Names) :
           outcome' = Schematic_deserialize(doc, ranking, build)
    /\ reader' = LET d == detect(doc) IN IF d.to = "sponge" THEN Some(d.version) ELSE None
    /\ cpc' = IF cpc = "doc" THEN "deserialized" ELSE "roundtrip"
    /\ UNCHANGED <<doc, schem, fmt, ser, build, blocksVars, varintVars>>

\* Schematic::serialize; beOrder is the order in which the block_entities
\* HashMap yields its entries.  On Ok the document is what the bytes hold.
Serialize ==
    /\ cpc = "schem"
    /\ \E beOrder \in Orders(DOMAIN Unwrap(schem).block_entities) :
           LET r == Schematic_serialize(Unwrap(schem), fmt, beOrder) IN
           /\ ser' = IF IsOk(r) THEN Ok("bytes") ELSE r
           /\ doc' = IF IsOk(r) THEN Unwrap(r.value) ELSE doc
           /\ cpc' = IF IsOk(r) THEN "serialized" ELSE "rejected"
    /\ UNCHANGED <<schem, fmt, outcome, reader, build, blocksVars, varintVars>>

NextCodec ==
    \/ Deserialize
    \/ Serialize

SpecCodec == InitCodec /\ [][NextCodec]_vars

(***************************************************************************)
(* Claims checked under SpecCodec.                                         *)
(***************************************************************************)
AllPositions(b) ==
    {<<x, y, z>> : x \in 0..(b.size_x - 1), y \in 0..(b.size_y - 1), z \in 0..(b.size_z - 1)}

SameBlocks(a, b) ==
    /\ a.size_x = b.size_x /\ a.size_y = b.size_y /\ a.size_z = b.size_z
    /\ \A p \in AllPositions(a) :
           get_block_at(a, p[1], p[2], p[3]) = get_block_at(b, p[1], p[2], p[3])

\* The schematic read back equals the one written, for target version v.
\* An empty passthrough map and an absent one are taken as the same metadata.
SameSchematic(r, s, v) ==
    /\ SameBlocks(r.blocks, s.blocks)
    /\ r.block_entities = s.block_entities
    /\ r.data_version = s.data_version
    /\ r.paste_offset = s.paste_offset
    /\ normalize_metadata(r.metadata) = normalize_metadata(s.metadata)
    /\ (v = 2 => r.origin = s.origin)

RoundTripPre ==
    /\ IsSome(schem)
    /\ fmt \in {Sponge(2), Sponge(3)}
    /\ IsSome(Unwrap(schem).data_version)
    /\ (fmt = Sponge(3) => IsSome(Unwrap(schem).paste_offset))

\* C1: for every Schematic with data_version set (and paste_offset set for
\* version 3) and each target version 2 or 3, serialize succeeds and
\* deserialize of the bytes yields an equal Schematic: same size, blocks,
\* block_entities, data_version, paste_offset, metadata, and for version 2
\* the same origin.
C1_RoundTrip ==
    /\ (cpc = "rejected" => ~RoundTripPre)
    /\ (cpc = "roundtrip" /\ RoundTripPre =>
            /\ IsOk(outcome)
            /\ SameSchematic(Unwrap(outcome.value), Unwrap(schem), fmt.version))

\* C2: serialize accepts exactly Sponge version 2 and Sponge version 3; for
\* these it does not return UnsupportedFormat, and for every other target
\* it returns UnsupportedFormat carrying the requested format and no bytes.
C2_AcceptedTargets ==
    cpc \in {"serialized", "rejected"} =>
        IF fmt \in {Sponge(2), Sponge(3)}
        THEN ser # Err(UnsupportedFormat(fmt))
        ELSE ser = Err(UnsupportedFormat(fmt))

HasIntVersion(root) == "Version" \in DOMAIN root /\ root["Version"].ty = "Int"

HasNestedVersion3(root) ==
    /\ "Schematic" \in DOMAIN root
    /\ root["Schematic"].ty = "Compound"
    /\ HasIntVersion(root["Schematic"].v)
    /\ root["Schematic"].v["Version"].v = 3

\* The four ordered rules, with rule 3 open to every document in rule3.
DetectionFollows(rule3) ==
    cpc = "deserialized" =>
        IF HasIntVersion(doc) /\ "Regions" \in DOMAIN doc
        THEN reader = None /\ outcome = Err(UnsupportedFormat(Litematica(doc["Version"].v)))
        ELSE IF HasIntVersion(doc) /\ doc["Version"].v \in {1, 2}
        THEN reader = Some(doc["Version"].v)
        ELSE IF HasNestedVersion3(doc) /\ rule3
        THEN reader = Some(3)
        ELSE reader = None /\ outcome = Err(UnrecognizedFormat)

\* C3 as stated: detection is the ordered decision (1) integer Version and
\* Regions -> UnsupportedFormat(Litematica(version)); (2) integer Version 1
\* or 2 -> the version-2-family reader with that version; (3) compound
\* Schematic with integer Version 3 -> the version-3 reader, also when the
\* root carries an integer Version other than 1 and 2; (4) otherwise
\* UnrecognizedFormat.
C3_DetectionOrdered == DetectionFollows(TRUE)

\* C3 amended: as above, but rule 3 applies only when the root has no
\* integer Version; a root with an integer Version other than 1 and 2 and no
\* Regions is UnrecognizedFormat whatever its Schematic tag holds.
C3_DetectionNested == DetectionFollows(~HasIntVersion(doc))

C3_Witness ==
    /\ cpc = "deserialized"
    /\ HasIntVersion(doc) /\ doc["Version"].v \notin {1, 2}
    /\ "Regions" \notin DOMAIN doc
    /\ HasNestedVersion3(doc)
    /\ reader = None
    /\ outcome = Err(UnrecognizedFormat)

\* C4: for every well-formed document handed to deserialize the outcome is
\* a Schematic or a SchematicError, never a panic: also when the block data
\* holds too few varints or ends inside one, a varint has more than 5
\* continuation bytes, a wire-id is absent from the Palette, a version-1/2
\* Offset has fewer than 3 elements, or a block-entity Pos has fewer than 3.
C4_NoPanic == cpc = "deserialized" => outcome.kind \in {"Ok", "Err"}

\* The compound the reader selected by detection takes the schematic from.
SchematicCompound == IF reader = Some(3) THEN doc["Schematic"].v ELSE doc

\* C5: deserialize of a document recognised as Sponge version 2 or 3 whose
\* schematic compound lacks DataVersion returns
\* MissingRequiredField("DataVersion") whatever else it holds or lacks; and
\* serialize of a Schematic whose data_version is None returns
\* MissingRequiredField("DataVersion") for target versions 2 and 3 of the
\* writer whatever the other fields are, so every call of
\* Schematic::serialize that gets past the target dispatch returns it.
C5_DataVersionMandatory ==
    /\ (cpc = "deserialized" /\ reader \in {Some(2), Some(3)}
            /\ "DataVersion" \notin DOMAIN SchematicCompound
        => outcome = Err(MissingRequiredField("DataVersion")))
    /\ (cpc = "rejected" /\ ~IsSome(Unwrap(schem).data_version)
        => /\ \A v \in {2, 3} : \A beOrder \in Orders(DOMAIN Unwrap(schem).block_entities) :
                  sponge_serialize(Unwrap(schem), v, beOrder)
                      = Err(MissingRequiredField("DataVersion"))
           /\ ser \in {Err(MissingRequiredField("DataVersion")), Err(UnsupportedFormat(fmt))})
    /\ (cpc = "serialized" => IsSome(Unwrap(schem).data_version))

\* A version-3 document without DataVersion, Width and Offset was read; or a
\* Schematic without data_version and paste_offset and with an oversized
\* dimension was handed to the version-3 writer.
C5_Witness ==
    \/ /\ cpc = "deserialized" /\ reader = Some(3)
       /\ DOMAIN SchematicCompound \cap {"DataVersion", "Width", "Offset"} = {}
       /\ outcome = Err(MissingRequiredField("DataVersion"))
    \/ /\ cpc = "rejected" /\ fmt = Sponge(3)
       /\ ~IsSome(Unwrap(schem).data_version) /\ ~IsSome(Unwrap(schem).paste_offset)
       /\ Unwrap(schem).blocks.size_x > 32767
       /\ ser = Err(MissingRequiredField("DataVersion"))

\* The version-2-family reader got as far as the metadata step: the tags it
\* reads before are there, and Metadata is a compound or absent.
ReachedMetadata ==
    /\ cpc = "deserialized" /\ reader = Some(2)
    /\ IsOk(required_nbt(doc, "DataVersion", "Int"))
    /\ \A t \in {"Width", "Height", "Length"} : IsOk(required_nbt(doc, t, "Short"))
    /\ IsOk(typed_nbt(doc, "Metadata", "Compound"))

WEKeys == <<"WEOffsetX", "WEOffsetY", "WEOffsetZ">>
RootMetadata == IF "Metadata" \in DOMAIN doc THEN doc["Metadata"].v ELSE EmptyMap
IsInt(m, k) == k \in DOMAIN m /\ m[k].ty = "Int"
OrZero(m, k) == IF k \in DOMAIN m THEN m[k].v ELSE 0
Without(m, keys) == [k \in DOMAIN m \ keys |-> m[k]]
NoneIfEmpty(m) == IF DOMAIN m = {} THEN None ELSE Some(m)

\* What a Schematic that was returned holds when promote is the condition
\* under which the WEOffset keys are promoted.
MetadataMapped(promote) ==
    IsOk(outcome) =>
        LET r == Unwrap(outcome.value) m == RootMetadata IN
        IF promote
        THEN /\ r.paste_offset = Some(<<m["WEOffsetX"].v, OrZero(m, "WEOffsetY"),
                                        OrZero(m, "WEOffsetZ")>>)
             /\ r.metadata = NoneIfEmpty(Without(m, {"WEOffsetX", "WEOffsetY", "WEOffsetZ"}))
        ELSE /\ r.paste_offset = None
             /\ r.metadata = NoneIfEmpty(m)

\* C6 as stated: on a version-2-family read, an integer WEOffsetX in
\* Metadata makes paste_offset (WEOffsetX, WEOffsetY, WEOffsetZ), absent
\* components 0, the three keys leave the metadata, which is None when
\* nothing remains; with Metadata absent or without an integer WEOffsetX,
\* paste_offset is None and the metadata keys are retained; the metadata is
\* never Some(empty map).  The step itself fails on no Metadata compound.
C6_MetadataPromotion ==
    ReachedMetadata =>
        /\ MetadataMapped(IsInt(RootMetadata, "WEOffsetX"))
        /\ \A i \in 1..3 : outcome # Err(MistypedField(WEKeys[i]))

\* C6 amended: the keys are promoted whenever WEOffsetX is present; if then
\* WEOffsetX, or a WEOffsetY or WEOffsetZ that is present, is not an
\* integer, deserialize returns MistypedField naming the first such key in
\* the order X, Y, Z.  Without a WEOffsetX key no WEOffset key is looked at.
C6_MetadataPromotionOrMistyped ==
    ReachedMetadata =>
        LET m == RootMetadata
            bad == {i \in 1..3 : WEKeys[i] \in DOMAIN m /\ ~IsInt(m, WEKeys[i])}
        IN  IF "WEOffsetX" \in DOMAIN m /\ bad # {}
            THEN outcome = Err(MistypedField(WEKeys[CHOOSE i \in bad : \A j \in bad : i <= j]))
            ELSE /\ MetadataMapped("WEOffsetX" \in DOMAIN m)
                 /\ \A i \in 1..3 : outcome # Err(MistypedField(WEKeys[i]))

\* Metadata holding WEOffsetX and WEOffsetZ only was read: the offset is
\* promoted with the absent Y as 0 and no metadata is left.
C6_Witness ==
    /\ ReachedMetadata
    /\ DOMAIN RootMetadata = {"WEOffsetX", "WEOffsetZ"}
    /\ IsOk(outcome)
    /\ Unwrap(outcome.value).paste_offset = Some(<<1, 0, -3>>)
    /\ Unwrap(outcome.value).metadata = None

\* The root the version-2 writer emits for the Schematic handed to
\* serialize holds the folded Metadata and the origin as Offset.
FoldedRoot(r) ==
    LET s == Unwrap(schem)
        root == Unwrap(r.value)
        passthrough == IF IsSome(s.metadata) THEN Unwrap(s.metadata) ELSE EmptyMap
        folded == IF IsSome(s.paste_offset) THEN {"WEOffsetX", "WEOffsetY", "WEOffsetZ"} ELSE {}
    IN  /\ IsOk(r)
        /\ (IsSome(s.paste_offset) \/ IsSome(s.metadata) =>
                /\ "Metadata" \in DOMAIN root
                /\ root["Metadata"].ty = "Compound"
                /\ \A k \in DOMAIN passthrough \ folded :
                       k \in DOMAIN root["Metadata"].v /\ root["Metadata"].v[k] = passthrough[k]
                /\ \A i \in 1..3 : IsSome(s.paste_offset) =>
                       /\ WEKeys[i] \in DOMAIN root["Metadata"].v
                       /\ root["Metadata"].v[WEKeys[i]] = NbtInt(Unwrap(s.paste_offset)[i]))
        /\ (IsSome(s.origin) =>
                "Offset" \in DOMAIN root /\ root["Offset"] = NbtIntArray(Unwrap(s.origin)))

\* The Schematic handed to serialize has what a version-2 document needs.
WritableAsVersion2 ==
    /\ cpc \in {"serialized", "rejected"}
    /\ IsSome(Unwrap(schem).data_version)
    /\ \A d \in {Unwrap(schem).blocks.size_x, Unwrap(schem).blocks.size_y,
                 Unwrap(schem).blocks.size_z} : d <= 32767

\* C11: when serializing to version 2, the emitted root contains a Metadata
\* compound whenever the Schematic has a paste_offset or a metadata map; it
\* holds every passthrough entry and, if paste_offset is present,
\* WEOffsetX/Y/Z equal to its components; and if origin is present the root
\* Offset array equals the origin's components.
C11_OffsetFolding ==
    WritableAsVersion2 =>
        \A beOrder \in Orders(DOMAIN Unwrap(schem).block_entities) :
            FoldedRoot(sponge_serialize(Unwrap(schem), 2, beOrder))

\* The varints a byte array holds, as numbers; <<-1>> ends the sequence
\* where the array ends inside a varint or a varint has more than 5 bytes.
RECURSIVE SplitVarints(_, _, _, _)
SplitVarints(bytes, acc, scale, n) ==
    IF bytes = <<>> THEN (IF n = 0 THEN <<>> ELSE <<-1>>)
    ELSE IF n >= 5 THEN <<-1>>
    ELSE LET u == Head(bytes) % 256
             v == acc + (u % 128) * scale
         IN  IF u < 128 THEN <<v>> \o SplitVarints(Tail(bytes), 0, 1, 0)
             ELSE SplitVarints(Tail(bytes), v, scale * 128, n + 1)

\* In container c, whose cells are those of b, the k-th varint of the block
\* data is the wire-id of the name b holds at (x, y, z), k = (y*L + z)*W + x.
CellsInOrder(c, data_name, b) ==
    LET w == SplitVarints(c[data_name].v, 0, 1, 0)
        pal == c["Palette"].v
    IN  /\ Len(w) = b.size_x * b.size_y * b.size_z
        /\ \A p \in AllPositions(b) :
               LET k == (p[2] * b.size_z + p[3]) * b.size_x + p[1]
                   g == get_block_at(b, p[1], p[2], p[3])
               IN  ~g.panic /\ g.name \in DOMAIN pal /\ pal[g.name].v = w[k + 1]

\* The block container of the document and the name of its data tag.
Container == IF reader = Some(3) THEN SchematicCompound["Blocks"].v ELSE doc
DataName == IF reader = Some(3) THEN "Data" ELSE "BlockData"

\* The document's block data holds one varint per cell, each a wire-id of
\* the Palette, and the Palette gives each name a wire-id of its own.
DecodePre ==
    LET c == Container
        w == SplitVarints(c[DataName].v, 0, 1, 0)
        pal == c["Palette"].v
        size == SchematicCompound["Width"].v * SchematicCompound["Height"].v
                    * SchematicCompound["Length"].v
    IN  /\ Len(w) = size
        /\ \A j \in 1..Len(w) : \E name \in DOMAIN pal : pal[name].v = w[j]
        /\ \A n1, n2 \in DOMAIN pal : pal[n1].v = pal[n2].v => n1 = n2

\* C12: when the block data holds W*H*L varints and the Palette maps each
\* name to a distinct wire-id, the decoded Blocks has at every in-bounds
\* (x, y, z) the Palette name whose wire-id is varint k = (y*L + z)*W + x,
\* whatever the order the Palette entries are visited in and whether or not
\* the in-memory ids are the wire-ids; the encoder emits the cells in the
\* same order.
C12_DecodeOrder ==
    /\ (cpc = "deserialized" /\ IsOk(outcome) /\ DecodePre =>
            CellsInOrder(Container, DataName, Unwrap(outcome.value).blocks))
    /\ (cpc = "serialized" =>
            CellsInOrder(doc["Schematic"].v["Blocks"].v, "Data", Unwrap(schem).blocks))

\* An eight-cell document was decoded whose wire-ids differ from the ids the
\* in-memory palette holds and whose cells are not all the same.
C12_Witness ==
    /\ cpc = "deserialized" /\ IsOk(outcome) /\ DecodePre
    /\ LET b == Unwrap(outcome.value).blocks
           w == SplitVarints(Container[DataName].v, 0, 1, 0)
       IN  /\ Len(b.indices) = 8
           /\ \E j, h \in 1..8 : w[j] # w[h]
           /\ \A p \in AllPositions(b) :
                  get_block_id_at(b, p[1], p[2], p[3]).id
                      # w[(p[2] * b.size_z + p[3]) * b.size_x + p[1] + 1]

====
